---- MODULE Spec2Model ----
(***************************************************************************)
(* Model of the dynamic output conversion of the Terrakube provider's      *)
(* workspace output data source                                            *)
(* (internal/provider/workspace_data_source.go): inferAttrType,            *)
(* convertToAttrValue and the walk over the outputs in                     *)
(* OutputDataSource.Read, together with the value constructors of the      *)
(* plugin framework (types.ListValue, types.TupleValue, types.ObjectValue, *)
(* types.MapValue) that they call.                                         *)
(*                                                                         *)
(* Encoding.  A raw value (Go interface{} as json.Unmarshal produces it)   *)
(* is a tagged tuple <<kind, payload>>; an attr.Type is a tagged tuple     *)
(* <<kind, ...>>; an attr.Value is <<type, state, payload>> with state     *)
(* "known", "null" or "unknown"; the nil attr.Type and the nil attr.Value  *)
(* are the one-element tuples NilType and NilValue.  The tag always comes  *)
(* first, so that two encodings of different kinds differ at the tag.      *)
(***************************************************************************)
EXTENDS Integers, Sequences, FiniteSets, TLC

\* ------------------------------------------------------------------ bounds
\* Nodes (scalars, arrays, objects) of a raw document handed to the
\* inferAttrType / convertToAttrValue pipeline.
MaxDocSize == 4
\* Nodes of a raw value, and of a target type, when convertToAttrValue is
\* applied to a type that was not inferred from that value.
MaxRawSize == 3
MaxTypeSize == 3
\* Outputs of one outputs document walked by Read.
MaxOutputs == 2

\* Object keys of raw values and of object types.
KeySeq == <<"a", "b">>
Keys == {KeySeq[i] : i \in 1..Len(KeySeq)}

\* ------------------------------------------------------------- raw values
RawNil == <<"nil">>
RawBool(b) == <<"bool", b>>
RawFloat64(n) == <<"float64", n>>
RawInt(n) == <<"int", n>>
RawString(s) == <<"string", s>>
RawSlice(es) == <<"slice", es>>
RawMap(m) == <<"map", m>>
\* A Go value of none of the kinds above (a struct, a json.Number, ...).
RawOther == <<"other">>

RawKind(raw) == raw[1]

\* The function with no key, and a function extended by one key.
NoEntries == [k \in {} |-> RawNil]
WithEntry(f, key, v) == [k \in (DOMAIN f) \cup {key} |-> IF k = key THEN v ELSE f[k]]

\* -------------------------------------------------------------- attr.Type
NilType == <<"nilType">>
BoolType == <<"Bool">>
NumberType == <<"Number">>
StringType == <<"String">>
DynamicType == <<"Dynamic">>
ListType(e) == <<"List", e>>
TupleType(es) == <<"Tuple", es>>
ObjectType(fs) == <<"Object", fs>>
MapType(e) == <<"Map", e>>

TypeKind(t) == t[1]

\* ------------------------------------------------------------- attr.Value
NilValue == <<"nilValue">>
Known(t, payload) == <<t, "known", payload>>
NullOf(t) == <<t, "null", <<>>>>
UnknownOf(t) == <<t, "unknown", <<>>>>

\* Value.Type(ctx), IsNull(), IsUnknown() and the elements of a known value.
TypeOf(v) == v[1]
IsNull(v) == v[2] = "null"
IsUnknown(v) == v[2] = "unknown"
IsKnown(v) == v[2] = "known"
Payload(v) == v[3]

\* ------------------------------------------------------- diag.Diagnostics
ErrorDiag(summary, detail) == [severity |-> "error", summary |-> summary, detail |-> detail]
NoDiags == <<>>
HasError(diags) == \E i \in 1..Len(diags) : diags[i].severity = "error"
ErrorCount(diags) == Cardinality({i \in 1..Len(diags) : diags[i].severity = "error"})

RECURSIVE Concat(_)
\* diags.Append(ds...) over a sequence of diagnostics sequences.
Concat(seqs) == IF seqs = <<>> THEN <<>> ELSE Head(seqs) \o Concat(Tail(seqs))

\* ---------------------------------------------------------- inferAttrType
\* The result of inferAttrType: the type, and whether the error is non-nil.
Inferred(t) == [typ |-> t, err |-> FALSE]
InferFailed == [typ |-> NilType, err |-> TRUE]

\* inferNil with nil given the wildcard type of an unknown element.
inferNil_Dynamic == DynamicType

\* The type a nil raw value is given.
inferNil == StringType

\* inferScalar with the number case returning the string case's type.
inferScalar_NumberAsString(raw) ==
    CASE RawKind(raw) = "bool" -> BoolType
      [] RawKind(raw) \in {"int", "float64"} -> StringType
      [] RawKind(raw) = "string" -> StringType

\* The type of a bool, a number (int, int8, ..., float32, float64) or a string.
inferScalar(raw) ==
    CASE RawKind(raw) = "bool" -> BoolType
      [] RawKind(raw) \in {"int", "float64"} -> NumberType
      [] RawKind(raw) = "string" -> StringType

\* homogeneous with the comparison loop starting one element late.
homogeneous_SkipSecond(elemTypes) ==
    \A i \in 3..Len(elemTypes) : elemTypes[i] = elemTypes[1]

\* Whether every element type is reflect.DeepEqual to the first.
homogeneous(elemTypes) ==
    \A i \in 2..Len(elemTypes) : elemTypes[i] = elemTypes[1]

\* The type of a non-empty slice whose elements have the types elemTypes.
sliceType(elemTypes) ==
    IF homogeneous(elemTypes)
    THEN ListType(elemTypes[1])
    ELSE TupleType(elemTypes)

RECURSIVE inferAttrType(_)
inferAttrType(raw) ==
    IF raw = RawNil THEN Inferred(inferNil)
    ELSE IF RawKind(raw) \in {"bool", "int", "float64", "string"}
    THEN Inferred(inferScalar(raw))
    ELSE IF RawKind(raw) = "slice"
    THEN LET v == raw[2]
             elems == [i \in 1..Len(v) |-> inferAttrType(v[i])]
         IN  IF Len(v) = 0 THEN Inferred(ListType(DynamicType))
             ELSE IF \E i \in 1..Len(v) : elems[i].err THEN InferFailed
             ELSE Inferred(sliceType([i \in 1..Len(v) |-> elems[i].typ]))
    ELSE IF RawKind(raw) = "map"
    THEN LET v == raw[2]
             attrs == [key \in DOMAIN v |-> inferAttrType(v[key])]
         IN  IF \E key \in DOMAIN v : attrs[key].err THEN InferFailed
             ELSE Inferred(ObjectType([key \in DOMAIN v |-> attrs[key].typ]))
    ELSE InferFailed

\* ------------------------------------ the framework's value constructors
\* What a call returns: a value and diagnostics, or a panic.
Outcome(v, diags) == [v |-> v, diags |-> diags, panic |-> FALSE]
Panicked == [v |-> NilValue, diags |-> NoDiags, panic |-> TRUE]

\* attr.Type.Equal: structural equality of two non-nil types.
TypeEqual(t, o) == t = o

\* One error diagnostic per element of bad (the offending index or key is
\* part of the detail text, which the model leaves out).
InvalidElements(summary, n) == [i \in 1..n |-> ErrorDiag(summary, "")]

\* types.ListValue: every element must have the element type; calling Type
\* on a nil element is a nil dereference.
ListValue(elemType, elems) ==
    IF \E i \in 1..Len(elems) : elems[i] = NilValue THEN Panicked
    ELSE LET bad == {i \in 1..Len(elems) : ~TypeEqual(elemType, TypeOf(elems[i]))}
         IN  IF bad # {}
             THEN Outcome(UnknownOf(ListType(elemType)),
                          InvalidElements("Invalid List Element Type", Cardinality(bad)))
             ELSE Outcome(Known(ListType(elemType), elems), NoDiags)

\* types.TupleValue: as many elements as types, each of its own type.
TupleValue(elemTypes, elems) ==
    IF Len(elemTypes) # Len(elems)
    THEN Outcome(UnknownOf(TupleType(elemTypes)),
                 <<ErrorDiag("Invalid Tuple Elements", "")>>)
    ELSE IF \E i \in 1..Len(elems) : elems[i] = NilValue THEN Panicked
    ELSE LET bad == {i \in 1..Len(elems) : ~TypeEqual(elemTypes[i], TypeOf(elems[i]))}
         IN  IF bad # {}
             THEN Outcome(UnknownOf(TupleType(elemTypes)),
                          InvalidElements("Invalid Tuple Element Type", Cardinality(bad)))
             ELSE Outcome(Known(TupleType(elemTypes), elems), NoDiags)

\* types.ObjectValue: a value for every attribute type and no other, each of
\* its attribute's type; Equal on a nil type, or Type on a nil value, is a
\* nil dereference.
ObjectValue(attrTypes, attrs) ==
    LET both == (DOMAIN attrTypes) \cap (DOMAIN attrs)
        missing == (DOMAIN attrTypes) \ (DOMAIN attrs)
        extra == (DOMAIN attrs) \ (DOMAIN attrTypes)
    IN  IF \E k \in both : attrTypes[k] = NilType \/ attrs[k] = NilValue THEN Panicked
        ELSE LET bad == {k \in both : ~TypeEqual(attrTypes[k], TypeOf(attrs[k]))}
             IN  IF missing # {} \/ extra # {} \/ bad # {}
                 THEN Outcome(UnknownOf(ObjectType(attrTypes)),
                              InvalidElements("Invalid Object Attributes",
                                  Cardinality(missing) + Cardinality(extra) + Cardinality(bad)))
                 ELSE Outcome(Known(ObjectType(attrTypes), attrs), NoDiags)

\* types.MapValue: every element must have the element type.
MapValue(elemType, elems) ==
    IF \E k \in DOMAIN elems : elems[k] = NilValue THEN Panicked
    ELSE LET bad == {k \in DOMAIN elems : ~TypeEqual(elemType, TypeOf(elems[k]))}
         IN  IF bad # {}
             THEN Outcome(UnknownOf(MapType(elemType)),
                          InvalidElements("Invalid Map Element Type", Cardinality(bad)))
             ELSE Outcome(Known(MapType(elemType), elems), NoDiags)

\* ----------------------------------------------------- convertToAttrValue
\* convertToAttrValue(raw, t) is the set of outcomes the call can have: Go
\* walks a map in an unspecified order, and the order decides which failing
\* attribute ends the walk of an object or of a map.

ConversionError(detail) == ErrorDiag("Conversion Error", detail)

\* raw == nil: the null string, whatever the type asked for.
convertNil(t) == Outcome(NullOf(StringType), NoDiags)

\* convertScalar with the number case's failure returning the string case's
\* placeholder.
convertScalar_StringNullForNumber(raw, t) ==
    CASE t = BoolType ->
            IF RawKind(raw) = "bool"
            THEN Outcome(Known(BoolType, raw[2]), NoDiags)
            ELSE Outcome(NullOf(BoolType), <<ConversionError("expected bool")>>)
      [] t = NumberType ->
            IF RawKind(raw) = "float64"
            THEN Outcome(Known(NumberType, raw[2]), NoDiags)
            ELSE Outcome(NullOf(StringType), <<ConversionError("expected number")>>)
      [] t = StringType ->
            IF RawKind(raw) = "string"
            THEN Outcome(Known(StringType, raw[2]), NoDiags)
            ELSE Outcome(NullOf(StringType), <<ConversionError("expected string")>>)

\* t == types.BoolType, types.NumberType or types.StringType.  A number is
\* asserted to be a float64: an int is not one.
convertScalar(raw, t) ==
    CASE t = BoolType ->
            IF RawKind(raw) = "bool"
            THEN Outcome(Known(BoolType, raw[2]), NoDiags)
            ELSE Outcome(NullOf(BoolType), <<ConversionError("expected bool")>>)
      [] t = NumberType ->
            IF RawKind(raw) = "float64"
            THEN Outcome(Known(NumberType, raw[2]), NoDiags)
            ELSE Outcome(NullOf(NumberType), <<ConversionError("expected number")>>)
      [] t = StringType ->
            IF RawKind(raw) = "string"
            THEN Outcome(Known(StringType, raw[2]), NoDiags)
            ELSE Outcome(NullOf(StringType), <<ConversionError("expected string")>>)

\* The default case of the type switch: a diagnostic and the nil value.
convertUnsupported(t) == Outcome(NilValue, <<ConversionError("unsupported type")>>)

RECURSIVE Choices(_)
\* Every way of taking one outcome for each element of a slice.
Choices(sets) ==
    IF Len(sets) = 0 THEN {<<>>}
    ELSE {<<h>> \o r : h \in Head(sets), r \in Choices(Tail(sets))}

\* What the element loop of a list or tuple leaves behind: the values, and
\* the diagnostics appended to the local diags.
elemValues(c) == [i \in 1..Len(c) |-> c[i].v]
elemDiags(c) == Concat([i \in 1..Len(c) |-> c[i].diags])

\* The return after the element loop of a list: the value and diagnostics of
\* types.ListValue.
listResult(elemType, elems, diags) == ListValue(elemType, elems)

\* The return after the element loop of a tuple: the value and diagnostics
\* of types.TupleValue.
tupleResult(elemTypes, elems, diags) == TupleValue(elemTypes, elems)

\* tupleLengthMismatch rejecting only a slice longer than the tuple.
tupleLengthMismatch_OnlyLonger(slice, elemTypes) == Len(slice) > Len(elemTypes)

\* The tuple's length test.
tupleLengthMismatch(slice, elemTypes) == Len(slice) # Len(elemTypes)

\* The return on a tuple length mismatch.
tupleMismatchResult(elemTypes, diags) ==
    Outcome(NullOf(TupleType(elemTypes)),
            diags \o <<ConversionError("tuple length mismatch")>>)

\* The return when an attribute of an object has an error diagnostic.
objectFieldFailed(attrTypes, diags) == Outcome(NullOf(ObjectType(attrTypes)), diags)

\* The raw value converted for an attribute: m[key], nil when absent.
fieldRaw(m, key) == IF key \in DOMAIN m THEN m[key] ELSE RawNil

RECURSIVE convertToAttrValue(_, _)
RECURSIVE objectLoop(_, _, _, _, _)
RECURSIVE mapLoop(_, _, _, _, _)

\* The walk over tt.AttrTypes, with the attributes todo left to visit.
objectLoop(m, attrTypes, todo, objValues, diags) ==
    IF todo = {} THEN {ObjectValue(attrTypes, objValues)}
    ELSE UNION { UNION {
            IF o.panic THEN {Panicked}
            ELSE IF HasError(o.diags)
            THEN {objectFieldFailed(attrTypes, diags \o o.diags)}
            ELSE objectLoop(m, attrTypes, todo \ {key},
                            WithEntry(objValues, key, o.v), diags \o o.diags)
            : o \in convertToAttrValue(fieldRaw(m, key), attrTypes[key]) }
         : key \in todo }

\* The walk over the raw map of a MapType, with the keys todo left to visit.
mapLoop(m, elemType, todo, mapValues, diags) ==
    IF todo = {} THEN {MapValue(elemType, mapValues)}
    ELSE UNION { UNION {
            IF o.panic THEN {Panicked}
            ELSE IF HasError(o.diags)
            THEN {MapValue(elemType, NoEntries)}
            ELSE mapLoop(m, elemType, todo \ {key},
                         WithEntry(mapValues, key, o.v), diags \o o.diags)
            : o \in convertToAttrValue(m[key], elemType) }
         : key \in todo }

convertToAttrValue(raw, t) ==
    IF raw = RawNil THEN {convertNil(t)}
    ELSE IF t \in {BoolType, NumberType, StringType} THEN {convertScalar(raw, t)}
    ELSE IF TypeKind(t) = "List"
    THEN IF RawKind(raw) # "slice"
         THEN {Outcome(NullOf(t), <<ConversionError("expected slice for ListType")>>)}
         ELSE { IF \E i \in 1..Len(c) : c[i].panic THEN Panicked
                ELSE listResult(t[2], elemValues(c), elemDiags(c))
                : c \in Choices([i \in 1..Len(raw[2]) |->
                                    convertToAttrValue(raw[2][i], t[2])]) }
    ELSE IF TypeKind(t) = "Tuple"
    THEN IF RawKind(raw) # "slice"
         THEN {Outcome(NullOf(t), <<ConversionError("expected slice for TupleType")>>)}
         ELSE IF tupleLengthMismatch(raw[2], t[2])
         THEN {tupleMismatchResult(t[2], NoDiags)}
         ELSE { IF \E i \in 1..Len(c) : c[i].panic THEN Panicked
                ELSE tupleResult(t[2], elemValues(c), elemDiags(c))
                : c \in Choices([i \in 1..Len(raw[2]) |->
                                    convertToAttrValue(raw[2][i], t[2][i])]) }
    ELSE IF TypeKind(t) = "Object"
    THEN IF RawKind(raw) # "map"
         THEN {Outcome(NullOf(t), <<ConversionError("expected map for ObjectType")>>)}
         ELSE objectLoop(raw[2], t[2], DOMAIN t[2], NoEntries, NoDiags)
    ELSE IF TypeKind(t) = "Map"
    THEN IF RawKind(raw) # "map"
         THEN {MapValue(t[2], NoEntries)}
         ELSE mapLoop(raw[2], t[2], DOMAIN raw[2], NoEntries, NoDiags)
    ELSE {convertUnsupported(t)}

\* ------------------------------------------------------------ input sets
\* The scalars json.Unmarshal yields, and the values it cannot yield.
JSONLeaves == {RawNil, RawBool(TRUE), RawFloat64(1), RawString("a")}
GoLeaves == JSONLeaves \cup {RawInt(1), RawOther}

RECURSIVE RawOfSize(_, _)
RECURSIVE SlicesOfSize(_, _)
RECURSIVE MapsOfSize(_, _, _)
\* The raw values of exactly n nodes over the scalars leaves.
RawOfSize(leaves, n) ==
    IF n = 0 THEN {}
    ELSE (IF n = 1 THEN leaves ELSE {})
         \cup {RawSlice(es) : es \in SlicesOfSize(leaves, n - 1)}
         \cup {RawMap(m) : m \in MapsOfSize(leaves, 1, n - 1)}
\* The slices whose elements have n nodes in all.
SlicesOfSize(leaves, n) ==
    IF n = 0 THEN {<<>>}
    ELSE UNION { {<<h>> \o r : h \in RawOfSize(leaves, k),
                               r \in SlicesOfSize(leaves, n - k)} : k \in 1..n }
\* The maps over the keys KeySeq[i], ... whose values have n nodes in all.
MapsOfSize(leaves, i, n) ==
    IF i > Len(KeySeq) THEN (IF n = 0 THEN {NoEntries} ELSE {})
    ELSE MapsOfSize(leaves, i + 1, n)
         \cup UNION { {WithEntry(f, KeySeq[i], v) : v \in RawOfSize(leaves, k),
                                                   f \in MapsOfSize(leaves, i + 1, n - k)}
                      : k \in 1..n }

TypeLeaves == {BoolType, NumberType, StringType, DynamicType}

RECURSIVE TypesOfSize(_)
RECURSIVE TypeSeqsOfSize(_)
RECURSIVE TypeFieldsOfSize(_, _)
\* The types of exactly n nodes.
TypesOfSize(n) ==
    IF n = 0 THEN {}
    ELSE (IF n = 1 THEN TypeLeaves ELSE {})
         \cup {ListType(e) : e \in TypesOfSize(n - 1)}
         \cup {MapType(e) : e \in TypesOfSize(n - 1)}
         \cup {TupleType(es) : es \in TypeSeqsOfSize(n - 1)}
         \cup {ObjectType(fs) : fs \in TypeFieldsOfSize(1, n - 1)}
TypeSeqsOfSize(n) ==
    IF n = 0 THEN {<<>>}
    ELSE UNION { {<<h>> \o r : h \in TypesOfSize(k), r \in TypeSeqsOfSize(n - k)}
                 : k \in 1..n }
TypeFieldsOfSize(i, n) ==
    IF i > Len(KeySeq) THEN (IF n = 0 THEN {NoEntries} ELSE {})
    ELSE TypeFieldsOfSize(i + 1, n)
         \cup UNION { {WithEntry(f, KeySeq[i], e) : e \in TypesOfSize(k),
                                                   f \in TypeFieldsOfSize(i + 1, n - k)}
                      : k \in 1..n }

\* The documents given to the inference and conversion pipeline.
Documents == UNION {RawOfSize(GoLeaves, n) : n \in 1..MaxDocSize}
\* The raw values and types given to a conversion against a stated type.
TargetRaws == UNION {RawOfSize(JSONLeaves, n) : n \in 1..MaxRawSize}
TargetTypes == UNION {TypesOfSize(n) : n \in 1..MaxTypeSize}

\* Whether a raw value is built only from what json.Unmarshal yields.
RECURSIVE IsJSON(_)
IsJSON(raw) ==
    CASE RawKind(raw) \in {"nil", "bool", "float64", "string"} -> TRUE
      [] RawKind(raw) = "slice" -> \A i \in 1..Len(raw[2]) : IsJSON(raw[2][i])
      [] RawKind(raw) = "map" -> \A k \in DOMAIN raw[2] : IsJSON(raw[2][k])
      [] OTHER -> FALSE

\* The values of the outputs of an outputs document, the ways its "sensitive"
\* entry can be written, and the output names.
OutputValues ==
    {RawFloat64(5), RawString("secret"), RawNil,
     RawSlice(<<RawFloat64(1), RawString("a")>>)}
SensitiveEntries == {RawBool(FALSE), RawBool(TRUE), RawNil, RawString("false"), RawFloat64(0)}
NameSeq == <<"x", "y", "z", "w">>
OutputNames == {NameSeq[i] : i \in 1..MaxOutputs}

\* One entry of values.outputs: a record with a value and, possibly, a
\* sensitive entry, or something that is no record.
OutputRecords ==
    {RawString("broken")}
    \cup {RawMap([k \in {"value"} |-> v]) : v \in OutputValues}
    \cup {RawMap([k \in {"value", "sensitive"} |-> IF k = "value" THEN v ELSE s])
            : v \in OutputValues, s \in SensitiveEntries}

\* ------------------------------------------------------------------ state
VARIABLES
    raw,        \* the raw value inferred from and converted
    t,          \* the attr.Type it is converted against
    err,        \* whether inferAttrType returned an error
    result,     \* what convertToAttrValue returned
    pc,         \* "start", "typed", "converted"; Read: "walk", "returned", "panicked", "done"
    outputs,    \* Read: values.outputs of the decoded document
    todo,       \* Read: the outputs the range loop has yet to visit
    sensitiveTypes, sensitiveValues,        \* Read: the maps of every output
    nonSensitiveTypes, nonSensitiveValues,  \* Read: the maps of the outputs with sensitive == false
    diagnostics, \* Read: resp.Diagnostics
    state       \* Read: the state set on the response, NoState before

convVars == <<raw, t, err, result>>
readVars == <<outputs, todo, sensitiveTypes, sensitiveValues,
              nonSensitiveTypes, nonSensitiveValues, diagnostics, state>>
vars == <<raw, t, err, result, pc, outputs, todo, sensitiveTypes, sensitiveValues,
          nonSensitiveTypes, nonSensitiveValues, diagnostics, state>>

NoResult == Outcome(NilValue, NoDiags)
NoState == [set |-> FALSE, Values |-> NilValue, NonSensitiveValues |-> NilValue]

\* No read in progress.
ReadIdle ==
    /\ outputs = NoEntries
    /\ todo = {}
    /\ sensitiveTypes = NoEntries
    /\ sensitiveValues = NoEntries
    /\ nonSensitiveTypes = NoEntries
    /\ nonSensitiveValues = NoEntries
    /\ diagnostics = NoDiags
    /\ state = NoState

\* A document, before its type is inferred.
InitDocument ==
    /\ raw \in Documents
    /\ t = NilType
    /\ err = FALSE
    /\ result = NoResult
    /\ pc = "start"
    /\ ReadIdle

\* A raw value and the type stated for it.
InitTarget ==
    /\ raw \in TargetRaws
    /\ t \in TargetTypes
    /\ err = FALSE
    /\ result = NoResult
    /\ pc = "typed"
    /\ ReadIdle

\* attrType, _ := inferAttrType(raw)
Infer ==
    /\ pc = "start"
    /\ t' = inferAttrType(raw).typ
    /\ err' = inferAttrType(raw).err
    /\ pc' = "typed"
    /\ UNCHANGED <<raw, result>>
    /\ UNCHANGED readVars

\* attrValue, diags := convertToAttrValue(raw, attrType)
Convert ==
    /\ pc = "typed"
    /\ \E o \in convertToAttrValue(raw, t) : result' = o
    /\ pc' = "converted"
    /\ UNCHANGED <<raw, t, err>>
    /\ UNCHANGED readVars

Next == Infer \/ Convert

Spec == InitDocument /\ [][Next]_vars

SpecConvert == InitTarget /\ [][Convert]_vars

\* ------------------------------------------------- OutputDataSource.Read
\* Read from the point where values.outputs has been decoded.
InitRead ==
    /\ \E names \in SUBSET OutputNames : outputs \in [names -> OutputRecords]
    /\ todo = DOMAIN outputs
    /\ sensitiveTypes = NoEntries
    /\ sensitiveValues = NoEntries
    /\ nonSensitiveTypes = NoEntries
    /\ nonSensitiveValues = NoEntries
    /\ diagnostics = NoDiags
    /\ state = NoState
    /\ pc = "walk"
    /\ raw = RawNil
    /\ t = NilType
    /\ err = FALSE
    /\ result = NoResult

\* isNonSensitive as myOutput["sensitive"] != true.
isNonSensitive_NotTrue(myOutput) == fieldRaw(myOutput, "sensitive") # RawBool(TRUE)

\* The flag read as a Go bool with the zero value for anything that is none:
\* b, _ := myOutput["sensitive"].(bool); !b
isNonSensitive_Falsy(myOutput) ==
    RawKind(fieldRaw(myOutput, "sensitive")) # "bool"
        \/ fieldRaw(myOutput, "sensitive") = RawBool(FALSE)

\* myOutput["sensitive"] == false
isNonSensitive(myOutput) == fieldRaw(myOutput, "sensitive") = RawBool(FALSE)

\* types.DynamicValue(obj)
DynamicValue(obj) == Known(DynamicType, obj)

\* One turn of the range loop, on an output that is a record.
WalkOutput ==
    /\ pc = "walk"
    /\ \E x \in todo :
        /\ RawKind(outputs[x]) = "map"
        /\ LET myOutput == outputs[x][2]
               value == fieldRaw(myOutput, "value")
               attrType == inferAttrType(value).typ
           IN  \E o \in convertToAttrValue(value, attrType) :
                 IF o.panic
                 THEN /\ pc' = "panicked"
                      /\ UNCHANGED <<todo, sensitiveTypes, sensitiveValues,
                                     nonSensitiveTypes, nonSensitiveValues>>
                 ELSE /\ pc' = pc
                      /\ todo' = todo \ {x}
                      /\ sensitiveTypes' = WithEntry(sensitiveTypes, x, attrType)
                      /\ sensitiveValues' = WithEntry(sensitiveValues, x, o.v)
                      /\ IF isNonSensitive(myOutput)
                         THEN /\ nonSensitiveTypes' = WithEntry(nonSensitiveTypes, x, attrType)
                              /\ nonSensitiveValues' = WithEntry(nonSensitiveValues, x, o.v)
                         ELSE UNCHANGED <<nonSensitiveTypes, nonSensitiveValues>>
    /\ UNCHANGED <<outputs, diagnostics, state>>
    /\ UNCHANGED convVars

\* One turn of the range loop, on an output that is no record: Read logs
\* and returns.
WalkBadOutput ==
    /\ pc = "walk"
    /\ \E x \in todo : RawKind(outputs[x]) # "map"
    /\ pc' = "returned"
    /\ UNCHANGED readVars
    /\ UNCHANGED convVars

\* After the loop: the two objects are built and set on the state.
Finish ==
    /\ pc = "walk"
    /\ todo = {}
    /\ LET all == ObjectValue(sensitiveTypes, sensitiveValues)
           non == ObjectValue(nonSensitiveTypes, nonSensitiveValues)
       IN  IF all.panic
           THEN pc' = "panicked" /\ UNCHANGED <<diagnostics, state>>
           ELSE IF HasError(diagnostics \o all.diags)
           THEN /\ pc' = "returned"
                /\ diagnostics' = diagnostics \o all.diags
                /\ UNCHANGED state
           ELSE IF non.panic
           THEN /\ pc' = "panicked"
                /\ diagnostics' = diagnostics \o all.diags
                /\ UNCHANGED state
           ELSE IF HasError(diagnostics \o all.diags \o non.diags)
           THEN /\ pc' = "returned"
                /\ diagnostics' = diagnostics \o all.diags \o non.diags
                /\ UNCHANGED state
           ELSE /\ pc' = "done"
                /\ diagnostics' = diagnostics \o all.diags \o non.diags
                /\ state' = [set |-> TRUE,
                             Values |-> DynamicValue(all.v),
                             NonSensitiveValues |-> DynamicValue(non.v)]
    /\ UNCHANGED <<outputs, todo, sensitiveTypes, sensitiveValues,
                   nonSensitiveTypes, nonSensitiveValues>>
    /\ UNCHANGED convVars

NextRead == WalkOutput \/ WalkBadOutput \/ Finish

SpecRead == InitRead /\ [][NextRead]_vars

\* Read on outputs whose values are any Go values, those included that
\* inferAttrType's type switch provides for and json.Unmarshal does not
\* yield: an int, and a value of no supported kind, alone or in an array.
GoOutputValues ==
    OutputValues
    \cup {RawInt(1), RawOther, RawSlice(<<RawFloat64(1), RawOther>>)}

GoOutputRecords ==
    {RawString("broken")}
    \cup {RawMap([k \in {"value"} |-> v]) : v \in GoOutputValues}
    \cup {RawMap([k \in {"value", "sensitive"} |-> IF k = "value" THEN v ELSE s])
            : v \in GoOutputValues, s \in SensitiveEntries}

InitReadAny ==
    /\ \E names \in SUBSET OutputNames : outputs \in [names -> GoOutputRecords]
    /\ todo = DOMAIN outputs
    /\ sensitiveTypes = NoEntries
    /\ sensitiveValues = NoEntries
    /\ nonSensitiveTypes = NoEntries
    /\ nonSensitiveValues = NoEntries
    /\ diagnostics = NoDiags
    /\ state = NoState
    /\ pc = "walk"
    /\ raw = RawNil
    /\ t = NilType
    /\ err = FALSE
    /\ result = NoResult

SpecReadAny == InitReadAny /\ [][NextRead]_vars

\* ----------------------------------------------------------------- claims

\* The attributes of the object wrapped by a dynamic value of the state.
AttrsOf(dyn) == Payload(Payload(dyn))

\* Whether the output x is a record whose sensitive entry is the boolean false.
FlaggedFalse(x) ==
    /\ RawKind(outputs[x]) = "map"
    /\ "sensitive" \in DOMAIN outputs[x][2]
    /\ outputs[x][2]["sensitive"] = RawBool(FALSE)

RECURSIVE Mirrors(_, _)
\* Whether the value v has the shape of the raw value: null for nil, the
\* same scalar, a known list or tuple of the same length, a known object
\* of the same keys, and so on below.
Mirrors(r, v) ==
    /\ v # NilValue
    /\ CASE RawKind(r) = "nil" -> IsNull(v)
         [] RawKind(r) = "bool" ->
                IsKnown(v) /\ TypeOf(v) = BoolType /\ Payload(v) = r[2]
         [] RawKind(r) = "float64" ->
                IsKnown(v) /\ TypeOf(v) = NumberType /\ Payload(v) = r[2]
         [] RawKind(r) = "string" ->
                IsKnown(v) /\ TypeOf(v) = StringType /\ Payload(v) = r[2]
         [] RawKind(r) = "slice" ->
                /\ IsKnown(v)
                /\ TypeKind(TypeOf(v)) \in {"List", "Tuple"}
                /\ Len(Payload(v)) = Len(r[2])
                /\ \A i \in 1..Len(r[2]) : Mirrors(r[2][i], Payload(v)[i])
         [] RawKind(r) = "map" ->
                /\ IsKnown(v)
                /\ TypeKind(TypeOf(v)) = "Object"
                /\ DOMAIN Payload(v) = DOMAIN r[2]
                /\ \A k \in DOMAIN r[2] : Mirrors(r[2][k], Payload(v)[k])
         [] OTHER -> FALSE

\* C1: for every raw JSON value (null, bool, number, string, array, object,
\* at any nesting), inferAttrType succeeds and converting the value against
\* the inferred type returns no error diagnostic and a value that mirrors
\* the raw value.
C1_RoundTrip ==
    (pc = "converted" /\ IsJSON(raw)) =>
        /\ ~err
        /\ ~result.panic
        /\ ~HasError(result.diags)
        /\ TypeOf(result.v) = t
        /\ Mirrors(raw, result.v)

\* C1's case: [null, {"a": []}] has been converted, to a known tuple.
C1_Witness ==
    /\ pc = "converted"
    /\ raw = RawSlice(<<RawNil, RawMap([k \in {"a"} |-> RawSlice(<<>>)])>>)
    /\ IsKnown(result.v)
    /\ TypeKind(t) = "Tuple"

\* C2 (as stated): converting nil against any type returns no diagnostic
\* and the null value of that type.
C2_NullTypedAsTarget ==
    (pc = "converted" /\ raw = RawNil) =>
        /\ ~result.panic
        /\ result.diags = NoDiags
        /\ result.v = NullOf(t)

\* C3: no output appears in the non-sensitive maps unless its sensitive
\* entry is false; and once Read has set the state, the attributes of
\* values are all the output names and those of nonsensitive_values are
\* exactly the names whose sensitive entry is false.
C3_Projections ==
    /\ \A x \in DOMAIN nonSensitiveValues : FlaggedFalse(x)
    /\ pc = "done" =>
        /\ state.set
        /\ DOMAIN AttrsOf(state.Values) = DOMAIN outputs
        /\ DOMAIN AttrsOf(state.NonSensitiveValues) =
              {x \in DOMAIN outputs : FlaggedFalse(x)}

\* C3's case: Read has finished on {x: (5, false), y: ("secret", true)}.
C3_Witness ==
    /\ pc = "done"
    /\ outputs = [n \in {"x", "y"} |->
          IF n = "x"
          THEN RawMap([k \in {"value", "sensitive"} |->
                         IF k = "value" THEN RawFloat64(5) ELSE RawBool(FALSE)])
          ELSE RawMap([k \in {"value", "sensitive"} |->
                         IF k = "value" THEN RawString("secret") ELSE RawBool(TRUE)])]
    /\ DOMAIN AttrsOf(state.NonSensitiveValues) = {"x"}

\* C4: the type inferred for an array whose elements all have a type is
\* List(Dynamic) when it is empty, List(d) when every element's type equals
\* d, the type of the first, and otherwise the tuple of the elements' types;
\* a tuple has at least two elements, one of a type other than the first's.
C4_ArrayType ==
    (pc = "typed" /\ RawKind(raw) = "slice"
        /\ \A i \in 1..Len(raw[2]) : ~inferAttrType(raw[2][i]).err) =>
        LET a == raw[2]
            ds == [i \in 1..Len(a) |-> inferAttrType(a[i]).typ]
        IN  /\ ~err
            /\ Len(a) = 0 => t = ListType(DynamicType)
            /\ (Len(a) > 0 /\ \A i \in 1..Len(a) : ds[i] = ds[1]) => t = ListType(ds[1])
            /\ (Len(a) > 0 /\ \E i \in 1..Len(a) : ds[i] # ds[1]) => t = TupleType(ds)
            /\ TypeKind(t) = "Tuple" =>
                  Len(a) >= 2 /\ \E i \in 2..Len(a) : ds[i] # ds[1]

\* C4's case: [1, "a", true] has been inferred as Tuple(Number, String, Bool).
C4_Witness ==
    /\ pc = "typed"
    /\ raw = RawSlice(<<RawFloat64(1), RawString("a"), RawBool(TRUE)>>)
    /\ t = TupleType(<<NumberType, StringType, BoolType>>)

\* C5 (as stated): inferAttrType maps a boolean to Bool, any number to
\* Number, a string to String, and null to a type of its own, distinct from
\* the type inferred for a string.
C5_NullDistinctFromString ==
    (pc = "typed" /\ RawKind(raw) \in {"nil", "bool", "int", "float64", "string"}) =>
        /\ ~err
        /\ RawKind(raw) = "nil" => t \notin {BoolType, NumberType, StringType}
        /\ RawKind(raw) = "bool" => t = BoolType
        /\ RawKind(raw) \in {"int", "float64"} => t = NumberType
        /\ RawKind(raw) = "string" => t = StringType

\* C5 (amended): inferAttrType maps a boolean to Bool, any number to
\* Number, a string to String, and null to String, the type of a string.
C5_ScalarTypes ==
    (pc = "typed" /\ RawKind(raw) \in {"nil", "bool", "int", "float64", "string"}) =>
        /\ ~err
        /\ RawKind(raw) = "nil" => t = StringType
        /\ RawKind(raw) = "bool" => t = BoolType
        /\ RawKind(raw) \in {"int", "float64"} => t = NumberType
        /\ RawKind(raw) = "string" => t = StringType

\* C5's case: null has been inferred, as String.
C5_Witness == pc = "typed" /\ raw = RawNil /\ t = StringType /\ ~err

RECURSIVE Mismatch(_, _)
\* Whether converting the raw value r against the type ty meets a value it
\* has no conversion for, at r itself or anywhere below it: a non-null
\* value of another kind than the type's, a tuple of another length, or a
\* non-null value against a type with no conversion rule.
Mismatch(r, ty) ==
    /\ r # RawNil
    /\ CASE ty = BoolType -> RawKind(r) # "bool"
         [] ty = NumberType -> RawKind(r) # "float64"
         [] ty = StringType -> RawKind(r) # "string"
         [] TypeKind(ty) = "List" ->
                \/ RawKind(r) # "slice"
                \/ \E i \in 1..Len(r[2]) : Mismatch(r[2][i], ty[2])
         [] TypeKind(ty) = "Tuple" ->
                \/ RawKind(r) # "slice"
                \/ Len(r[2]) # Len(ty[2])
                \/ \E i \in 1..Len(r[2]) : Mismatch(r[2][i], ty[2][i])
         [] TypeKind(ty) = "Object" ->
                \/ RawKind(r) # "map"
                \/ \E k \in DOMAIN ty[2] : Mismatch(fieldRaw(r[2], k), ty[2][k])
         [] TypeKind(ty) = "Map" ->
                \/ RawKind(r) # "map"
                \/ \E k \in DOMAIN r[2] : Mismatch(r[2][k], ty[2])
         [] OTHER -> TRUE

\* C6 (as stated): converting a raw map against Object(fields), when no
\* field fails, returns a known object of that type whose attributes are
\* exactly the fields, each the conversion of its raw entry (nil when
\* absent), also when a field is absent from the map or null in it.
C6_ObjectKeySet ==
    (pc = "converted" /\ RawKind(raw) = "map" /\ TypeKind(t) = "Object"
        /\ \A k \in DOMAIN t[2] : ~Mismatch(fieldRaw(raw[2], k), t[2][k])) =>
        /\ ~result.panic
        /\ IsKnown(result.v)
        /\ TypeOf(result.v) = t
        /\ DOMAIN Payload(result.v) = DOMAIN t[2]
        /\ \A k \in DOMAIN t[2] :
              \E o \in convertToAttrValue(fieldRaw(raw[2], k), t[2][k]) :
                  Payload(result.v)[k] = o.v

\* C7 (as stated): converting a raw map against Object(fields), when a
\* field fails, at the field or anywhere below it, returns the null object
\* of that type and an error diagnostic.
C7_ObjectAllOrNothing ==
    (pc = "converted" /\ RawKind(raw) = "map" /\ TypeKind(t) = "Object"
        /\ \E k \in DOMAIN t[2] : Mismatch(fieldRaw(raw[2], k), t[2][k])) =>
        /\ ~result.panic
        /\ result.v = NullOf(t)
        /\ HasError(result.diags)

\* C8 (as stated): converting a raw array against List(elem) returns a
\* known list with as many entries as the array, each of type elem.
C8_ListLength ==
    (pc = "converted" /\ RawKind(raw) = "slice" /\ TypeKind(t) = "List") =>
        /\ ~result.panic
        /\ IsKnown(result.v)
        /\ TypeOf(result.v) = t
        /\ Len(Payload(result.v)) = Len(raw[2])
        /\ \A i \in 1..Len(raw[2]) :
              /\ Payload(result.v)[i] # NilValue
              /\ TypeOf(Payload(result.v)[i]) = t[2]

\* The type the i-th element of a slice is converted against.
ElemTypeAt(ty, i) == IF TypeKind(ty) = "List" THEN ty[2] ELSE ty[2][i]

\* C9 (as stated): converting a raw array against a list type, or a tuple
\* type of its length, returns at least one error diagnostic for each
\* element that fails.
C9_ElementDiagnostics ==
    (pc = "converted" /\ RawKind(raw) = "slice"
        /\ \/ TypeKind(t) = "List"
           \/ TypeKind(t) = "Tuple" /\ Len(t[2]) = Len(raw[2])) =>
        /\ ~result.panic
        /\ ErrorCount(result.diags) >=
              Cardinality({i \in 1..Len(raw[2]) :
                              Mismatch(raw[2][i], ElemTypeAt(t, i))})

\* C10: converting a raw array against a tuple type of another length
\* returns exactly one diagnostic, an error, and the null tuple of that type.
C10_TupleArity ==
    (pc = "converted" /\ RawKind(raw) = "slice" /\ TypeKind(t) = "Tuple"
        /\ Len(raw[2]) # Len(t[2])) =>
        /\ ~result.panic
        /\ result.v = NullOf(t)
        /\ result.diags = <<ConversionError("tuple length mismatch")>>

\* C10's case: ["a"] has been converted against Tuple(Number, Number).
C10_Witness ==
    /\ pc = "converted"
    /\ raw = RawSlice(<<RawString("a")>>)
    /\ t = TupleType(<<NumberType, NumberType>>)
    /\ IsNull(result.v)


\* The raw kind a scalar type converts.
ScalarKindOf(ty) ==
    CASE ty = BoolType -> "bool"
      [] ty = NumberType -> "float64"
      [] ty = StringType -> "string"

\* C11: converting a non-null raw value against Bool, Number or String,
\* when the value is of another kind, returns exactly one diagnostic, an
\* error, and the null value of the type asked for, never the nil value.
C11_ScalarMismatch ==
    (pc = "converted" /\ raw # RawNil /\ t \in {BoolType, NumberType, StringType}
        /\ RawKind(raw) # ScalarKindOf(t)) =>
        /\ ~result.panic
        /\ result.v # NilValue
        /\ result.v = NullOf(t)
        /\ Len(result.diags) = 1
        /\ result.diags[1].severity = "error"
        /\ result.diags[1].summary = "Conversion Error"

\* C11's case: "a" has been converted against Number, to the null number.
C11_Witness ==
    /\ pc = "converted"
    /\ raw = RawString("a")
    /\ t = NumberType
    /\ result.v = NullOf(NumberType)
    /\ HasError(result.diags)

\* C12 (as stated): a failed conversion against Map(elem), of a non-null
\* value that is no map or of a map with an entry that fails, returns the
\* empty map of that type and at least one error diagnostic.
C12_MapFailure ==
    (pc = "converted" /\ raw # RawNil /\ TypeKind(t) = "Map" /\ Mismatch(raw, t)) =>
        /\ ~result.panic
        /\ result.v = Known(t, NoEntries)
        /\ HasError(result.diags)

\* C13 (as stated): converting a non-null raw value against Dynamic returns
\* an error diagnostic and a null value, never the nil value.
C13_UnsupportedPlaceholder ==
    (pc = "converted" /\ raw # RawNil /\ t = DynamicType) =>
        /\ ~result.panic
        /\ HasError(result.diags)
        /\ result.v # NilValue
        /\ IsNull(result.v)


\* Whether the output x is a record, and the value of that record.
IsRecord(x) == RawKind(outputs[x]) = "map"
ValueOf(x) == fieldRaw(outputs[x][2], "value")

RECURSIVE HasUnsupported(_)
\* Whether a raw value is, or holds at any depth, a value of a kind
\* inferAttrType has no case for.
HasUnsupported(r) ==
    CASE RawKind(r) \in {"nil", "bool", "int", "float64", "string"} -> FALSE
      [] RawKind(r) = "slice" -> \E i \in 1..Len(r[2]) : HasUnsupported(r[2][i])
      [] RawKind(r) = "map" -> \E k \in DOMAIN r[2] : HasUnsupported(r[2][k])
      [] OTHER -> TRUE

ConversionFails(x) ==
    \A o \in convertToAttrValue(ValueOf(x), inferAttrType(ValueOf(x)).typ) :
        ~o.panic /\ HasError(o.diags)

RECURSIVE ToRaw(_)
\* The raw JSON a value serializes to: null for a value that is null,
\* unknown or nil, the scalar of a known scalar, an array of a known list
\* or tuple, an object of a known object or map.
ToRaw(v) ==
    IF v = NilValue THEN RawNil
    ELSE IF ~IsKnown(v) THEN RawNil
    ELSE CASE TypeOf(v) = BoolType -> RawBool(Payload(v))
           [] TypeOf(v) = NumberType -> RawFloat64(Payload(v))
           [] TypeOf(v) = StringType -> RawString(Payload(v))
           [] TypeKind(TypeOf(v)) \in {"List", "Tuple"} ->
                  RawSlice([i \in 1..Len(Payload(v)) |-> ToRaw(Payload(v)[i])])
           [] TypeKind(TypeOf(v)) \in {"Object", "Map"} ->
                  RawMap([k \in DOMAIN Payload(v) |-> ToRaw(Payload(v)[k])])

\* C16 (as stated): converting the serialization of a converted value
\* against the same type returns a value equal to the converted value,
\* placeholders of failed branches included.
C16_Idempotent ==
    pc = "converted" =>
        /\ ~result.panic
        /\ \A o \in convertToAttrValue(ToRaw(result.v), t) :
              ~o.panic /\ o.v = result.v


\* Whether the record of output x has no sensitive key, or a sensitive entry
\* that is no boolean (null, a string, a number).
FlagMissingOrOdd(x) ==
    /\ RawKind(outputs[x]) = "map"
    /\ \/ "sensitive" \notin DOMAIN outputs[x][2]
       \/ RawKind(outputs[x][2]["sensitive"]) # "bool"

\* The attribute types of the object a dynamic value wraps.
AttrTypesOf(dyn) == TypeOf(Payload(dyn))[2]

\* C17: the redacted projection fails closed. An output with no sensitive
\* key, or with a sensitive entry other than the boolean false, is never in
\* nonsensitive_values, during the walk or in the state set; every name in
\* nonsensitive_values is in values with the same type and the same value.
C17_FailsClosed ==
    /\ \A x \in DOMAIN outputs :
          (FlagMissingOrOdd(x) \/ ~FlaggedFalse(x)) =>
              /\ x \notin DOMAIN nonSensitiveValues
              /\ x \notin DOMAIN nonSensitiveTypes
              /\ state.set => x \notin DOMAIN AttrsOf(state.NonSensitiveValues)
    /\ \A x \in DOMAIN nonSensitiveValues :
          /\ x \in DOMAIN sensitiveValues
          /\ nonSensitiveTypes[x] = sensitiveTypes[x]
          /\ nonSensitiveValues[x] = sensitiveValues[x]
    /\ state.set =>
          \A x \in DOMAIN AttrsOf(state.NonSensitiveValues) :
              /\ x \in DOMAIN AttrsOf(state.Values)
              /\ AttrTypesOf(state.NonSensitiveValues)[x] = AttrTypesOf(state.Values)[x]
              /\ AttrsOf(state.NonSensitiveValues)[x] = AttrsOf(state.Values)[x]

\* C17's case: Read has finished on {x: ("secret", sensitive "false" as a
\* string), y: (5, false)}; only y is in nonsensitive_values.
C17_Witness ==
    /\ pc = "done"
    /\ state.set
    /\ outputs = [n \in {"x", "y"} |->
          IF n = "x"
          THEN RawMap([k \in {"value", "sensitive"} |->
                         IF k = "value" THEN RawString("secret") ELSE RawString("false")])
          ELSE RawMap([k \in {"value", "sensitive"} |->
                         IF k = "value" THEN RawFloat64(5) ELSE RawBool(FALSE)])]
    /\ DOMAIN AttrsOf(state.NonSensitiveValues) = {"y"}
    /\ AttrsOf(state.Values)["y"] = Known(NumberType, 5)

====
